---- MODULE Spec2Model ----
(***************************************************************************)
(* detray single_type_navigator: the navigation state machine, its         *)
(* candidate kernel and the volume/portal linkage it consults.             *)
(*                                                                         *)
(* Geometry is one-dimensional: the track sits at an integer position and  *)
(* moves in the positive direction, every surface sits at a position, and  *)
(* the path length to a surface is the signed difference.  Lengths are     *)
(* integers; the on-object tolerance is 2 units and the track's overstep   *)
(* tolerance is -1 unit, so a path of -1, 0 or 1 is "on the object" and a  *)
(* path of -1 is still accepted by a scan.                                 *)
(*                                                                         *)
(* The kernel cursor (an iterator in the source) is an index into the      *)
(* candidate sequence, Len + 1 standing for candidates.end().  A scan that *)
(* appends re-seats the cursor in sort_and_set; a scan that appends        *)
(* nothing to an empty kernel leaves the cursor at the end of the empty    *)
(* kernel (a reallocation by reserve() is not modelled there).             *)
(***************************************************************************)
EXTENDS Integers, Sequences, FiniteSets, TLC

(***************************************************************************)
(* Bounds                                                                  *)
(***************************************************************************)
\* last position the track may be moved to
MaxPos == 7

\* last position a track may be moved to when two trajectories are navigated
MaxPosPar == 3

\* largest kernel a call may build (a scan appends to the candidates it finds)
MaxCandidates == 3

(***************************************************************************)
(* Enumerations and constants of the navigator                             *)
(***************************************************************************)
e_on_target == -3
e_abort == -2
e_unknown == -1
e_towards_object == 0
e_on_object == 1

e_no_trust == 0
e_fair_trust == 1
e_high_trust == 3
e_full_trust == 4

TrustLevels == {e_no_trust, e_fair_trust, e_high_trust, e_full_trust}

\* dindex_invalid: the "no volume / no object" sentinel
dindex_invalid == 255

\* std::numeric_limits<scalar>::infinity(), larger than every path length
infinity == 1000

\* default on-object tolerance (1e-3), in model units
on_object_tolerance == 2

\* the nullptr of navigation_kernel::on
nullptr == "nullptr"

\* intersection status values
e_inside == "inside"
e_outside == "outside"

(***************************************************************************)
(* Shared, read-only geometry (the navigator's const reference members).   *)
(* Volume v owns the surfaces full_range(v)[1] .. full_range(v)[2]-1; a    *)
(* surface carries its position, whether the track hits its mask, and the  *)
(* volume reached by crossing it (edge()[0]).                              *)
(*   volume 0: surface 0 (sensitive, at 2), surface 1 (portal to 1, at 4)  *)
(*   volume 1: surface 2 (portal back to 0, at 4), surface 3 (module the   *)
(*             track misses, at 5), surface 4 (portal out of the world,    *)
(*             at 6)                                                       *)
(*   volume 2: surface 5 only (sensitive, at 3): no portal on the track    *)
(*   volume 3: empty surface range                                         *)
(*   volume 4: surface 6 (sensitive, at 5), surfaces 7 and 8 (two          *)
(*             sensitive surfaces that coincide at 2): the range is not    *)
(*             stored by distance and holds two equal path lengths         *)
(***************************************************************************)
ToyVolumes ==
    [v \in 0..4 |->
        CASE v = 0 -> <<0, 2>>
          [] v = 1 -> <<2, 5>>
          [] v = 2 -> <<5, 6>>
          [] v = 3 -> <<6, 6>>
          [] v = 4 -> <<6, 9>>]

ToyObjects ==
    [s \in 0..8 |->
        CASE s = 0 -> [pos |-> 2, hit |-> TRUE,  edge |-> 0]
          [] s = 1 -> [pos |-> 4, hit |-> TRUE,  edge |-> 1]
          [] s = 2 -> [pos |-> 4, hit |-> TRUE,  edge |-> 0]
          [] s = 3 -> [pos |-> 5, hit |-> FALSE, edge |-> 1]
          [] s = 4 -> [pos |-> 6, hit |-> TRUE,  edge |-> dindex_invalid]
          [] s = 5 -> [pos |-> 3, hit |-> TRUE,  edge |-> 2]
          [] s = 6 -> [pos |-> 5, hit |-> TRUE,  edge |-> 4]
          [] s = 7 -> [pos |-> 2, hit |-> TRUE,  edge |-> 4]
          [] s = 8 -> [pos |-> 2, hit |-> TRUE,  edge |-> 4]]

\* the trajectories navigated (one navigation state and one track each)
Trajectories == {1, 2}

VARIABLES
    volumes,        \* _volumes: volume -> surface index range
    objects,        \* _objects: surface -> position, mask hit, edge link
    navigation,     \* trajectory -> navigation state
    track,          \* trajectory -> track (pos, overstep_tolerance)
    op,             \* the last operation the caller performed
    caller,         \* the trajectory it was performed on
    heartbeat,      \* value returned by the last status/target call
    entry,          \* navigation state on entry of the last call
    updated,        \* navigation state of the last call after its kernel update
    inspections     \* the states the inspector was invoked with in the last call

vars == <<volumes, objects, navigation, track, op, caller, heartbeat, entry,
          updated, inspections>>

(***************************************************************************)
(* navigation_kernel and state                                             *)
(***************************************************************************)
\* a state constructed with distance_to_next at zero
state_with_zero_distance ==
    [on |-> nullptr,
     candidates |-> <<>>,
     next |-> 1,
     volume_index |-> dindex_invalid,
     distance_to_next |-> 0,
     status |-> e_unknown,
     object_index |-> dindex_invalid,
     links |-> 0,
     trust_level |-> e_no_trust]

\* state after construction
state ==
    [on |-> nullptr,
     candidates |-> <<>>,
     next |-> 1,
     volume_index |-> dindex_invalid,
     distance_to_next |-> infinity,
     status |-> e_unknown,
     object_index |-> dindex_invalid,
     links |-> 0,
     trust_level |-> e_no_trust]

empty(n) == n.candidates = <<>>

size(n) == Len(n.candidates)

\* candidates.end() as a cursor value
end(n) == Len(n.candidates) + 1

\* clear that leaves the kernel as it is
clear_without_reset(n) == n

clear(n) == [n EXCEPT !.candidates = <<>>, !.next = 1, !.on = nullptr]

is_exhausted(n) == n.next = end(n)

set_initial_volume(n, initial_volume) == [n EXCEPT !.volume_index = initial_volume]

set_trust_level(n, lvl) == [n EXCEPT !.trust_level = lvl]

\* abort that leaves the trust level as it was
abort_keeping_trust(n) == [n EXCEPT !.status = e_abort]

abort(n) == [n EXCEPT !.status = e_abort, !.trust_level = e_no_trust]

\* exit that leaves the trust level as the volume switch set it
exit_without_full_trust(n) == [n EXCEPT !.status = e_on_target]

exit(n) == [n EXCEPT !.status = e_on_target, !.trust_level = e_full_trust]

(***************************************************************************)
(* The intersection primitive: signed path length, inside/outside, and     *)
(* the links of the mask that was hit, written to the caller's links.      *)
(***************************************************************************)
intersect(trk, obj, links) ==
    [path |-> obj.pos - trk.pos,
     status |-> IF obj.hit THEN e_inside ELSE e_outside,
     links |-> IF obj.hit THEN obj.edge ELSE links]

\* intersection::operator<
intersection_less(a, b) ==
    \/ a.path < b.path
    \/ a.path = b.path /\ a.index < b.index

RECURSIVE insert(_, _)
insert(sorted, c) ==
    IF sorted = <<>> THEN <<c>>
    ELSE IF intersection_less(c, Head(sorted)) THEN <<c>> \o sorted
    ELSE <<Head(sorted)>> \o insert(Tail(sorted), c)

\* the candidates left in the order they were pushed
sort_unsorted(cands) == cands

\* std::sort(candidates.begin(), candidates.end())
RECURSIVE sort(_)
sort(cands) ==
    IF cands = <<>> THEN <<>>
    ELSE insert(sort(SubSeq(cands, 1, Len(cands) - 1)), cands[Len(cands)])

\* sort_and_set that sets the cursor without sorting the candidates
sort_and_set_without_sort(n, pte) ==
    IF ~empty(n) THEN
        LET unsorted == [n EXCEPT !.trust_level = e_full_trust, !.next = 1]
            placed ==
                IF unsorted.distance_to_next < on_object_tolerance
                THEN [unsorted EXCEPT !.object_index = unsorted.candidates[1].index,
                                      !.next = 2,
                                      !.trust_level = e_high_trust]
                ELSE [unsorted EXCEPT !.object_index = dindex_invalid]
        IN  [placed EXCEPT !.status = e_towards_object,
                           !.distance_to_next =
                               IF is_exhausted(placed) THEN pte
                               ELSE placed.candidates[placed.next].path]
    ELSE abort(n)

\* sort_and_set that raises the trust level only when it skips a candidate
sort_and_set_keeping_trust(n, pte) ==
    IF ~empty(n) THEN
        LET sorted == [n EXCEPT !.candidates = sort(@),
                                !.next = 1]
            placed ==
                IF sorted.distance_to_next < on_object_tolerance
                THEN [sorted EXCEPT !.object_index = sorted.candidates[1].index,
                                    !.next = 2,
                                    !.trust_level = e_high_trust]
                ELSE [sorted EXCEPT !.object_index = dindex_invalid]
        IN  [placed EXCEPT !.status = e_towards_object,
                           !.distance_to_next =
                               IF is_exhausted(placed) THEN pte
                               ELSE placed.candidates[placed.next].path]
    ELSE abort(n)

\* sort_and_set that places the cursor by the path of the first candidate
sort_and_set_by_first_path(n, pte) ==
    IF ~empty(n) THEN
        LET sorted == [n EXCEPT !.trust_level = e_full_trust,
                                !.candidates = sort(@),
                                !.next = 1]
            placed ==
                IF sorted.candidates[1].path < on_object_tolerance
                THEN [sorted EXCEPT !.object_index = sorted.candidates[1].index,
                                    !.next = 2,
                                    !.trust_level = e_high_trust]
                ELSE [sorted EXCEPT !.object_index = dindex_invalid]
        IN  [placed EXCEPT !.status = e_towards_object,
                           !.distance_to_next =
                               IF is_exhausted(placed) THEN pte
                               ELSE placed.candidates[placed.next].path]
    ELSE abort(n)

(***************************************************************************)
(* sort_and_set (the tail of every bulk (re-)population).  When the first  *)
(* candidate is skipped as the occupied one and it was the only one, the   *)
(* source reads kernel.next->path at candidates.end(): pte is the value    *)
(* that read produces.                                                     *)
(***************************************************************************)
sort_and_set(n, pte) ==
    IF ~empty(n) THEN
        LET sorted == [n EXCEPT !.trust_level = e_full_trust,
                                !.candidates = sort(@),
                                !.next = 1]
            placed ==
                IF sorted.distance_to_next < on_object_tolerance
                THEN [sorted EXCEPT !.object_index = sorted.candidates[1].index,
                                    !.next = 2,
                                    !.trust_level = e_high_trust]
                ELSE [sorted EXCEPT !.object_index = dindex_invalid]
        IN  [placed EXCEPT !.status = e_towards_object,
                           !.distance_to_next =
                               IF is_exhausted(placed) THEN pte
                               ELSE placed.candidates[placed.next].path]
    ELSE abort(n)

(***************************************************************************)
(* initialize_kernel: intersect every object of the range and keep the     *)
(* candidates that are reachable and inside, except the occupied object.   *)
(***************************************************************************)
RECURSIVE intersect_range(_, _, _, _)
intersect_range(n, trk, obj_idx, last) ==
    IF obj_idx >= last THEN n
    ELSE
        LET obj == objects[obj_idx]
            sfi == intersect(trk, obj, n.links)
            n1  == [n EXCEPT !.links = sfi.links]
        IN  IF sfi.path < trk.overstep_tolerance
            THEN intersect_range(n1, trk, obj_idx + 1, last)
            ELSE IF sfi.status = e_inside /\ obj_idx # n.object_index
            THEN intersect_range(
                    [n1 EXCEPT !.status = e_towards_object,
                               !.candidates = Append(@,
                                   [index |-> obj_idx, path |-> sfi.path,
                                    status |-> sfi.status, link |-> obj.edge])],
                    trk, obj_idx + 1, last)
            ELSE intersect_range(n1, trk, obj_idx + 1, last)

initialize_kernel(n, trk, obj_range, pte) ==
    sort_and_set(intersect_range(n, trk, obj_range[1], obj_range[2]), pte)

(***************************************************************************)
(* update_kernel                                                           *)
(***************************************************************************)
\* the high-trust update that does not pass over the occupied surface
RECURSIVE update_next_without_occupied_test(_, _)
update_next_without_occupied_test(n, trk) ==
    IF is_exhausted(n) THEN abort(n)
    ELSE
        LET obj_idx == n.candidates[n.next].index
            obj == objects[obj_idx]
            sfi == intersect(trk, obj, n.links)
            n1  == [n EXCEPT !.links = sfi.links]
        IN  IF sfi.status = e_inside
            THEN LET hit == [n1 EXCEPT !.candidates[n.next] =
                                           [index |-> obj_idx, path |-> sfi.path,
                                            status |-> sfi.status, link |-> obj.edge],
                                       !.distance_to_next = sfi.path]
                     abs_path == IF sfi.path < 0 THEN -sfi.path ELSE sfi.path
                 IN  IF abs_path < on_object_tolerance
                     THEN [hit EXCEPT !.object_index = obj_idx,
                                      !.status = e_on_object,
                                      !.trust_level = e_high_trust]
                     ELSE [hit EXCEPT !.status = e_towards_object,
                                      !.trust_level = e_full_trust]
            ELSE update_next_without_occupied_test([n1 EXCEPT !.next = @ + 1], trk)

\* the high-trust update that trusts the kernel fully once on the object
RECURSIVE update_next_full_trust_on_object(_, _)
update_next_full_trust_on_object(n, trk) ==
    IF is_exhausted(n) THEN abort(n)
    ELSE
        LET obj_idx == n.candidates[n.next].index
            obj == objects[obj_idx]
            sfi == intersect(trk, obj, n.links)
            n1  == [n EXCEPT !.links = sfi.links]
        IN  IF sfi.status = e_inside /\ obj_idx # n.object_index
            THEN LET hit == [n1 EXCEPT !.candidates[n.next] =
                                           [index |-> obj_idx, path |-> sfi.path,
                                            status |-> sfi.status, link |-> obj.edge],
                                       !.distance_to_next = sfi.path]
                     abs_path == IF sfi.path < 0 THEN -sfi.path ELSE sfi.path
                 IN  IF abs_path < on_object_tolerance
                     THEN [hit EXCEPT !.object_index = obj_idx,
                                      !.status = e_on_object,
                                      !.trust_level = e_full_trust]
                     ELSE [hit EXCEPT !.status = e_towards_object,
                                      !.trust_level = e_full_trust]
            ELSE update_next_full_trust_on_object([n1 EXCEPT !.next = @ + 1], trk)

\* the high-trust update that stores the intersection of a candidate it skips
RECURSIVE update_next_storing_skipped(_, _)
update_next_storing_skipped(n, trk) ==
    IF is_exhausted(n) THEN abort(n)
    ELSE
        LET obj_idx == n.candidates[n.next].index
            obj == objects[obj_idx]
            sfi == intersect(trk, obj, n.links)
            n1  == [n EXCEPT !.links = sfi.links,
                             !.candidates[n.next] =
                                 [index |-> obj_idx, path |-> sfi.path,
                                  status |-> sfi.status, link |-> obj.edge]]
        IN  IF sfi.status = e_inside /\ obj_idx # n.object_index
            THEN LET hit == [n1 EXCEPT !.distance_to_next = sfi.path]
                     abs_path == IF sfi.path < 0 THEN -sfi.path ELSE sfi.path
                 IN  IF abs_path < on_object_tolerance
                     THEN [hit EXCEPT !.object_index = obj_idx,
                                      !.status = e_on_object,
                                      !.trust_level = e_high_trust]
                     ELSE [hit EXCEPT !.status = e_towards_object,
                                      !.trust_level = e_full_trust]
            ELSE update_next_storing_skipped([n1 EXCEPT !.next = @ + 1], trk)

\* the high-trust update that compares the signed path with the tolerance
RECURSIVE update_next_without_abs(_, _)
update_next_without_abs(n, trk) ==
    IF is_exhausted(n) THEN abort(n)
    ELSE
        LET obj_idx == n.candidates[n.next].index
            obj == objects[obj_idx]
            sfi == intersect(trk, obj, n.links)
            n1  == [n EXCEPT !.links = sfi.links]
        IN  IF sfi.status = e_inside /\ obj_idx # n.object_index
            THEN LET hit == [n1 EXCEPT !.candidates[n.next] =
                                           [index |-> obj_idx, path |-> sfi.path,
                                            status |-> sfi.status, link |-> obj.edge],
                                       !.distance_to_next = sfi.path]
                 IN  IF sfi.path < on_object_tolerance
                     THEN [hit EXCEPT !.object_index = obj_idx,
                                      !.status = e_on_object,
                                      !.trust_level = e_high_trust]
                     ELSE [hit EXCEPT !.status = e_towards_object,
                                      !.trust_level = e_full_trust]
            ELSE update_next_without_abs([n1 EXCEPT !.next = @ + 1], trk)

\* the high-trust update that leaves distance-to-next as it was
RECURSIVE update_next_without_distance(_, _)
update_next_without_distance(n, trk) ==
    IF is_exhausted(n) THEN abort(n)
    ELSE
        LET obj_idx == n.candidates[n.next].index
            obj == objects[obj_idx]
            sfi == intersect(trk, obj, n.links)
            n1  == [n EXCEPT !.links = sfi.links]
        IN  IF sfi.status = e_inside /\ obj_idx # n.object_index
            THEN LET hit == [n1 EXCEPT !.candidates[n.next] =
                                           [index |-> obj_idx, path |-> sfi.path,
                                            status |-> sfi.status, link |-> obj.edge]]
                     abs_path == IF sfi.path < 0 THEN -sfi.path ELSE sfi.path
                 IN  IF abs_path < on_object_tolerance
                     THEN [hit EXCEPT !.object_index = obj_idx,
                                      !.status = e_on_object,
                                      !.trust_level = e_high_trust]
                     ELSE [hit EXCEPT !.status = e_towards_object,
                                      !.trust_level = e_full_trust]
            ELSE update_next_without_distance([n1 EXCEPT !.next = @ + 1], trk)

\* trust >= high: re-intersect the cursor candidate, stepping the cursor on
\* while the candidate is not inside or is the occupied object; when the
\* kernel is exhausted the loop ends and control reaches the abort() that
\* closes update_kernel
RECURSIVE update_next(_, _)
update_next(n, trk) ==
    IF is_exhausted(n) THEN abort(n)
    ELSE
        LET obj_idx == n.candidates[n.next].index
            obj == objects[obj_idx]
            sfi == intersect(trk, obj, n.links)
            n1  == [n EXCEPT !.links = sfi.links]
        IN  IF sfi.status = e_inside /\ obj_idx # n.object_index
            THEN LET hit == [n1 EXCEPT !.candidates[n.next] =
                                           [index |-> obj_idx, path |-> sfi.path,
                                            status |-> sfi.status, link |-> obj.edge],
                                       !.distance_to_next = sfi.path]
                     abs_path == IF sfi.path < 0 THEN -sfi.path ELSE sfi.path
                 IN  IF abs_path < on_object_tolerance
                     THEN [hit EXCEPT !.object_index = obj_idx,
                                      !.status = e_on_object,
                                      !.trust_level = e_high_trust]
                     ELSE [hit EXCEPT !.status = e_towards_object,
                                      !.trust_level = e_full_trust]
            ELSE update_next([n1 EXCEPT !.next = @ + 1], trk)

\* the fair-trust refresh that leaves the stored intersections as they are
update_candidates_without_refresh(n, trk, i) == n

\* trust = fair: re-intersect every candidate in place
RECURSIVE update_candidates(_, _, _)
update_candidates(n, trk, i) ==
    IF i > Len(n.candidates) THEN n
    ELSE
        LET obj_idx == n.candidates[i].index
            sfi == intersect(trk, objects[obj_idx], n.links)
        IN  update_candidates(
                [n EXCEPT !.links = sfi.links,
                          !.candidates[i] =
                              [index |-> obj_idx, path |-> sfi.path,
                               status |-> sfi.status, link |-> sfi.links]],
                trk, i + 1)

\* update_kernel that takes full trust as nothing to do
update_kernel_without_full_trust_update(n, trk, obj_range, pte) ==
    IF n.trust_level = e_no_trust
    THEN initialize_kernel(n, trk, obj_range, pte)
    ELSE IF n.trust_level = e_high_trust
    THEN update_next(n, trk)
    ELSE IF n.trust_level = e_fair_trust
    THEN sort_and_set(update_candidates(n, trk, 1), pte)
    ELSE n

update_kernel(n, trk, obj_range, pte) ==
    IF n.trust_level = e_no_trust
    THEN initialize_kernel(n, trk, obj_range, pte)
    ELSE IF n.trust_level >= e_high_trust
    THEN update_next(n, trk)
    ELSE IF n.trust_level = e_fair_trust
    THEN sort_and_set(update_candidates(n, trk, 1), pte)
    ELSE abort(n)

(***************************************************************************)
(* check_volume_switch.  It reads kernel.next->link; pte_link is what the  *)
(* read produces should the cursor be at candidates.end().                 *)
(***************************************************************************)
next_link(n, pte_link) ==
    IF is_exhausted(n) THEN pte_link ELSE n.candidates[n.next].link

\* check_volume_switch that forgets to exit() at the end of the world
check_volume_switch_without_exit(n, pte_link) ==
    IF n.status = e_on_object /\ n.volume_index # next_link(n, pte_link)
    THEN [clear(n) EXCEPT !.volume_index = next_link(n, pte_link),
                          !.trust_level = e_no_trust]
    ELSE n

\* check_volume_switch that forgets to clear the kernel
check_volume_switch_without_clear(n, pte_link) ==
    IF n.status = e_on_object /\ n.volume_index # next_link(n, pte_link)
    THEN LET switched == [n EXCEPT !.volume_index = next_link(n, pte_link),
                                   !.trust_level = e_no_trust]
         IN  IF switched.volume_index = dindex_invalid
             THEN exit(switched)
             ELSE switched
    ELSE n

\* check_volume_switch that does not test the status
check_volume_switch_without_status_test(n, pte_link) ==
    IF n.volume_index # next_link(n, pte_link)
    THEN LET switched == [clear(n) EXCEPT !.volume_index = next_link(n, pte_link),
                                          !.trust_level = e_no_trust]
         IN  IF switched.volume_index = dindex_invalid
             THEN exit(switched)
             ELSE switched
    ELSE n

check_volume_switch(n, pte_link) ==
    IF n.status = e_on_object /\ n.volume_index # next_link(n, pte_link)
    THEN LET switched == [clear(n) EXCEPT !.volume_index = next_link(n, pte_link),
                                          !.trust_level = e_no_trust]
         IN  IF switched.volume_index = dindex_invalid
             THEN exit(switched)
             ELSE switched
    ELSE n

(***************************************************************************)
(* The two public calls.  Each yields the state it leaves, the heartbeat   *)
(* it returns, the state as update_kernel left it and the sequence of      *)
(* states the inspector was invoked with.                                  *)
(***************************************************************************)
full_range(volume_index) == volumes[volume_index]

\* the calls without the test for an empty kernel
update_and_check_without_empty_test(n, trk, pte, pte_link) ==
    LET upd == update_kernel(n, trk, full_range(n.volume_index), pte)
        checked == check_volume_switch(upd, pte_link)
    IN  [navigation |-> checked, heartbeat |-> TRUE,
         updated |-> upd, inspections |-> <<checked>>]

\* the calls returning abort() also when the update left status abort
update_and_check_abort_on_status(n, trk, pte, pte_link) ==
    LET upd == update_kernel(n, trk, full_range(n.volume_index), pte)
    IN  IF empty(upd) \/ upd.status = e_abort
        THEN [navigation |-> abort(upd), heartbeat |-> FALSE,
              updated |-> upd, inspections |-> <<>>]
        ELSE LET checked == check_volume_switch(upd, pte_link)
             IN  [navigation |-> checked, heartbeat |-> TRUE,
                  updated |-> upd, inspections |-> <<checked>>]

\* status() and target() from the kernel update on
update_and_check(n, trk, pte, pte_link) ==
    LET upd == update_kernel(n, trk, full_range(n.volume_index), pte)
    IN  IF empty(upd)
        THEN [navigation |-> abort(upd), heartbeat |-> FALSE,
              updated |-> upd, inspections |-> <<>>]
        ELSE LET checked == check_volume_switch(upd, pte_link)
             IN  [navigation |-> checked, heartbeat |-> TRUE,
                  updated |-> upd, inspections |-> <<checked>>]

\* status that returns at once under full trust, as target does
status_with_full_trust_return(n, trk, pte, pte_link) ==
    IF n.trust_level = e_full_trust
    THEN [navigation |-> n, heartbeat |-> TRUE, updated |-> n, inspections |-> <<>>]
    ELSE update_and_check(n, trk, pte, pte_link)

status(n, trk, pte, pte_link) == update_and_check(n, trk, pte, pte_link)

\* target that does not return at once under full trust
target_without_full_trust_return(n, trk, pte, pte_link) ==
    update_and_check(
        IF is_exhausted(n)
        THEN [clear(n) EXCEPT !.trust_level = e_no_trust]
        ELSE n,
        trk, pte, pte_link)

\* target that does not clear an exhausted kernel
target_without_exhaustion_test(n, trk, pte, pte_link) ==
    IF n.trust_level = e_full_trust
    THEN [navigation |-> n, heartbeat |-> TRUE,
          updated |-> n, inspections |-> <<>>]
    ELSE update_and_check(n, trk, pte, pte_link)

target(n, trk, pte, pte_link) ==
    IF n.trust_level = e_full_trust
    THEN [navigation |-> n, heartbeat |-> TRUE,
          updated |-> n, inspections |-> <<>>]
    ELSE update_and_check(
            IF is_exhausted(n)
            THEN [clear(n) EXCEPT !.trust_level = e_no_trust]
            ELSE n,
            trk, pte, pte_link)

(***************************************************************************)
(* The caller.  It constructs a state, sets the initial volume once, and   *)
(* then moves the track forward, sets the trust level (as an actor does)   *)
(* and calls status and target in any order.  status indexes _volumes with *)
(* the current volume, and so does target unless trust is full: the caller *)
(* makes those calls only while the current volume is a volume.            *)
(***************************************************************************)
\* values a read of kernel.next->path at candidates.end() can produce
past_the_end_paths == {-1, 0, 3}

\* values a read of kernel.next->link at candidates.end() can produce
past_the_end_links == {0, dindex_invalid}

Init ==
    /\ volumes = ToyVolumes
    /\ objects = ToyObjects
    /\ navigation = [t \in Trajectories |-> state]
    /\ track = [t \in Trajectories |-> [pos |-> 0, overstep_tolerance |-> -1]]
    /\ op = "construct"
    /\ caller = 1
    /\ heartbeat = TRUE
    /\ entry = state
    /\ updated = state
    /\ inspections = <<>>

\* the last operation was a navigator call
IsCall == op \in {"status", "target"}

\* an operation other than a navigator call leaves no call record
NoCall(t, name) ==
    /\ op' = name
    /\ caller' = t
    /\ entry' = navigation'[t]
    /\ updated' = navigation'[t]
    /\ inspections' = <<>>
    /\ UNCHANGED <<volumes, objects, heartbeat>>

SetInitialVolume(t, v) ==
    /\ navigation[t].status = e_unknown
    /\ navigation[t].volume_index = dindex_invalid
    /\ navigation' = [navigation EXCEPT ![t] = set_initial_volume(@, v)]
    /\ UNCHANGED track
    /\ NoCall(t, "set_initial_volume")

SetTrustLevel(t, lvl) ==
    /\ navigation[t].volume_index # dindex_invalid
    /\ navigation' = [navigation EXCEPT ![t] = set_trust_level(@, lvl)]
    /\ UNCHANGED track
    /\ NoCall(t, "set_trust_level")

Move(t) ==
    /\ track[t].pos < MaxPos
    /\ track' = [track EXCEPT ![t].pos = @ + 1]
    /\ UNCHANGED navigation
    /\ NoCall(t, "move")

\* a navigator whose kernel is held by the navigator, not by the state
CallWithSharedKernel(t, name, result) ==
    /\ Len(result.navigation.candidates) <= MaxCandidates
    /\ navigation' =
           [u \in Trajectories |->
               IF u = t THEN result.navigation
               ELSE [navigation[u] EXCEPT
                        !.candidates = result.navigation.candidates,
                        !.next = result.navigation.next]]
    /\ heartbeat' = result.heartbeat
    /\ op' = name
    /\ caller' = t
    /\ entry' = navigation[t]
    /\ updated' = result.updated
    /\ inspections' = result.inspections
    /\ UNCHANGED <<volumes, objects, track>>

\* a navigator call and its record
Call(t, name, result) ==
    /\ Len(result.navigation.candidates) <= MaxCandidates
    /\ navigation' = [navigation EXCEPT ![t] = result.navigation]
    /\ heartbeat' = result.heartbeat
    /\ op' = name
    /\ caller' = t
    /\ entry' = navigation[t]
    /\ updated' = result.updated
    /\ inspections' = result.inspections
    /\ UNCHANGED <<volumes, objects, track>>

StatusCall(t) ==
    /\ navigation[t].volume_index \in DOMAIN volumes
    /\ \E pte \in past_the_end_paths, pte_link \in past_the_end_links :
           Call(t, "status", status(navigation[t], track[t], pte, pte_link))

TargetCall(t) ==
    /\ \/ navigation[t].trust_level = e_full_trust
       \/ navigation[t].volume_index \in DOMAIN volumes
    /\ \E pte \in past_the_end_paths, pte_link \in past_the_end_links :
           Call(t, "target", target(navigation[t], track[t], pte, pte_link))

\* one trajectory, navigated alone
Next ==
    \/ \E v \in DOMAIN volumes : SetInitialVolume(1, v)
    \/ \E lvl \in TrustLevels : SetTrustLevel(1, lvl)
    \/ Move(1)
    \/ StatusCall(1)
    \/ TargetCall(1)

Spec == Init /\ [][Next]_vars

\* the navigation state and track of the trajectory navigated alone
nav == navigation[1]

\* the last call ran the kernel update (target did not return at once)
RanUpdate == IsCall /\ ~(op = "target" /\ entry.trust_level = e_full_trust)

\* the last call's kernel update ended on an object
OnObjectAfterUpdate ==
    RanUpdate /\ updated.status = e_on_object /\ ~is_exhausted(updated)

\* the next-volume link of the occupied (cursor) candidate after the update
OccupiedLink == updated.candidates[updated.next].link

(***************************************************************************)
(* C1: target under full trust is a no-op.  Whenever target is called with *)
(* trust full_trust it returns heartbeat true and leaves every field of    *)
(* the navigation state (volume, candidates, cursor, distance to next,     *)
(* status, occupied object, trust) as it was.                              *)
(***************************************************************************)
C1_TargetFullTrustNoOp ==
    (op = "target" /\ entry.trust_level = e_full_trust)
        => (heartbeat = TRUE /\ nav = entry)

C1_Witness ==
    /\ op = "target"
    /\ entry.trust_level = e_full_trust
    /\ entry.status = e_towards_object
    /\ ~is_exhausted(entry)

(***************************************************************************)
(* C2: a call whose kernel update ends on an object linked to the exit     *)
(* sentinel ends with status on_target, trust full_trust, the invalid      *)
(* volume, and heartbeat true.                                             *)
(***************************************************************************)
C2_ExitOnSentinel ==
    (OnObjectAfterUpdate /\ OccupiedLink = dindex_invalid)
        => /\ nav.status = e_on_target
           /\ nav.trust_level = e_full_trust
           /\ nav.volume_index = dindex_invalid
           /\ heartbeat = TRUE

C2_Witness ==
    /\ OnObjectAfterUpdate
    /\ OccupiedLink = dindex_invalid
    /\ updated.object_index = 4
    /\ nav.status = e_on_target

(***************************************************************************)
(* C3: a call whose kernel update ends on an object linked to another      *)
(* valid volume ends in that volume with an empty kernel, the cursor at    *)
(* its end, trust no_trust, status on_object, and heartbeat true.          *)
(***************************************************************************)
C3_VolumeSwitch ==
    (/\ OnObjectAfterUpdate
     /\ OccupiedLink # updated.volume_index
     /\ OccupiedLink # dindex_invalid)
        => /\ nav.volume_index = OccupiedLink
           /\ empty(nav)
           /\ is_exhausted(nav)
           /\ nav.trust_level = e_no_trust
           /\ nav.status = e_on_object
           /\ heartbeat = TRUE

C3_Witness ==
    /\ OnObjectAfterUpdate
    /\ OccupiedLink = 1
    /\ entry.volume_index = 0
    /\ nav.volume_index = 1

(***************************************************************************)
(* C4: a status call made in a volume with an empty surface range ends     *)
(* with status abort and heartbeat false, whatever the trust on entry.     *)
(***************************************************************************)
EmptyRange(v) == v \in DOMAIN volumes /\ volumes[v][1] >= volumes[v][2]

C4_EmptyRangeAborts ==
    (op = "status" /\ EmptyRange(entry.volume_index))
        => (nav.status = e_abort /\ heartbeat = FALSE)

C4_Witness ==
    /\ op = "status"
    /\ EmptyRange(entry.volume_index)
    /\ entry.trust_level = e_high_trust
    /\ nav.status = e_abort

(***************************************************************************)
(* C5: a call that ends with status abort returns heartbeat false.  It is  *)
(* stated for the calls that run the kernel update, where abort is raised. *)
(***************************************************************************)
C5_AbortHeartbeatFalse ==
    (RanUpdate /\ nav.status = e_abort) => heartbeat = FALSE

(***************************************************************************)
(* C6: a call returns heartbeat false only if the kernel is empty after    *)
(* the update; it then ends with status abort and trust no_trust, and the  *)
(* volume and the distance to next are as they were on entry.              *)
(***************************************************************************)
C6_HeartbeatFalse ==
    (IsCall /\ heartbeat = FALSE)
        => /\ empty(updated)
           /\ nav.status = e_abort
           /\ nav.trust_level = e_no_trust
           /\ nav.volume_index = entry.volume_index
           /\ nav.distance_to_next = entry.distance_to_next

C6_Witness ==
    /\ IsCall
    /\ heartbeat = FALSE
    /\ ~EmptyRange(entry.volume_index)
    /\ entry.distance_to_next < on_object_tolerance

(***************************************************************************)
(* C7: abort is terminal.  A call made on a state in status abort returns  *)
(* heartbeat false and leaves the state as it was, status abort included.  *)
(* It is stated for the calls that run the kernel update.                  *)
(***************************************************************************)
C7_AbortTerminal ==
    (RanUpdate /\ entry.status = e_abort)
        => (heartbeat = FALSE /\ nav = entry)

(***************************************************************************)
(* C8: exhaustion recovery.  A full re-scan leaves, after the update, one  *)
(* candidate with a fresh path length for every surface of the volume's    *)
(* range that is inside, not overstepped and not the occupied one, and     *)
(* nothing else; and the call ran the update instead of returning at once  *)
(* (it invoked the inspector or returned heartbeat false).                 *)
(***************************************************************************)
ValidSurfaces(v, trk, occupied) ==
    IF v \in DOMAIN volumes
    THEN {s \in volumes[v][1] .. (volumes[v][2] - 1) :
            /\ objects[s].hit
            /\ objects[s].pos - trk.pos >= trk.overstep_tolerance
            /\ s # occupied}
    ELSE {}

Rescanned ==
    LET valid == ValidSurfaces(entry.volume_index, track[1], entry.object_index)
    IN  /\ (inspections # <<>> \/ heartbeat = FALSE)
        /\ {updated.candidates[i].index : i \in DOMAIN updated.candidates} = valid
        /\ Len(updated.candidates) = Cardinality(valid)
        /\ \A i \in DOMAIN updated.candidates :
               updated.candidates[i].path =
                   objects[updated.candidates[i].index].pos - track[1].pos

\* C8 as claimed: whenever the cursor is at the end of the candidates, the
\* next target call clears the kernel and re-scans the volume
C8_ExhaustedTargetRescans ==
    (op = "target" /\ is_exhausted(entry)) => Rescanned

\* C8 as amended: whenever the cursor is at the end of the candidates and
\* trust is not full_trust, the next target call clears the kernel and
\* re-scans the volume
C8_ExhaustedTargetRescansUnlessFullTrust ==
    (op = "target" /\ is_exhausted(entry) /\ entry.trust_level # e_full_trust)
        => Rescanned

C8_Witness ==
    /\ op = "target"
    /\ is_exhausted(entry)
    /\ entry.trust_level = e_no_trust
    /\ entry.status = e_on_object
    /\ entry.volume_index = 1
    /\ Len(updated.candidates) = 2

(***************************************************************************)
(* C9: every status and target call invokes the inspector exactly once,    *)
(* with the navigation state as the call leaves it.                        *)
(***************************************************************************)
C9_InspectedOnce ==
    IsCall => inspections = <<nav>>

(***************************************************************************)
(* Two trajectories navigated against the same geometry, their calls       *)
(* interleaved in any order.  The callers set the initial volume, move     *)
(* the track and call status and target; they start in volume 0 or 2.     *)
(***************************************************************************)
MovePar(t) == track[t].pos < MaxPosPar /\ Move(t)

NextPar ==
    \/ \E t \in Trajectories, v \in {0, 2} : SetInitialVolume(t, v)
    \/ \E t \in Trajectories : MovePar(t)
    \/ \E t \in Trajectories : StatusCall(t)
    \/ \E t \in Trajectories : TargetCall(t)

SpecPar == Init /\ [][NextPar]_vars

\* a step trajectory t takes when it is navigated alone
AloneStep(t) ==
    \/ /\ navigation[t].status = e_unknown
       /\ navigation[t].volume_index = dindex_invalid
       /\ \E v \in DOMAIN volumes :
              navigation'[t] = set_initial_volume(navigation[t], v)
       /\ track'[t] = track[t]
    \/ /\ track[t].pos < MaxPos
       /\ track'[t] = [track[t] EXCEPT !.pos = @ + 1]
       /\ navigation'[t] = navigation[t]
    \/ /\ navigation[t].volume_index \in DOMAIN volumes
       /\ \E pte \in past_the_end_paths, pte_link \in past_the_end_links :
              navigation'[t] =
                  status(navigation[t], track[t], pte, pte_link).navigation
       /\ track'[t] = track[t]
    \/ /\ \/ navigation[t].trust_level = e_full_trust
          \/ navigation[t].volume_index \in DOMAIN volumes
       /\ \E pte \in past_the_end_paths, pte_link \in past_the_end_links :
              navigation'[t] =
                  target(navigation[t], track[t], pte, pte_link).navigation
       /\ track'[t] = track[t]

(***************************************************************************)
(* C10: in every interleaving, a step leaves the geometry as it was,       *)
(* leaves the state and track of every trajectory but the caller's as      *)
(* they were, and takes the caller's trajectory through a step it takes    *)
(* when navigated alone.                                                   *)
(***************************************************************************)
C10_Independent ==
    [][/\ volumes' = volumes
       /\ objects' = objects
       /\ \A t \in Trajectories :
              IF t = caller'
              THEN AloneStep(t)
              ELSE navigation'[t] = navigation[t] /\ track'[t] = track[t]]_vars

C10_Witness ==
    /\ op = "status"
    /\ caller = 2
    /\ navigation[1].status = e_on_object
    /\ navigation[1].volume_index = 1
    /\ navigation[2].status = e_towards_object
    /\ navigation[2].volume_index = 0

(***************************************************************************)
(* C11: a no_trust scan entered with an empty kernel leaves a candidate    *)
(* sequence that is determined by the volume, the track position and the   *)
(* occupied surface alone: one fresh intersection for each valid surface   *)
(* of the volume, in ascending order of path length, equal path lengths    *)
(* in ascending order of surface index.  A sequence in strictly ascending  *)
(* order over a given set of intersections is unique, so two such scans    *)
(* of the same volume from the same position yield the same sequence.      *)
(***************************************************************************)
\* the last call ran initialize_kernel on an empty kernel
ScannedFromEmpty ==
    /\ RanUpdate
    /\ \/ op = "target" /\ is_exhausted(entry)
       \/ entry.trust_level = e_no_trust /\ empty(entry)

StrictlyAscending(cands) ==
    \A i \in 1 .. (Len(cands) - 1) :
        \/ cands[i].path < cands[i + 1].path
        \/ cands[i].path = cands[i + 1].path /\ cands[i].index < cands[i + 1].index

\* C11: after a no_trust scan entered with an empty kernel the candidates
\* are exactly the fresh intersections of the valid surfaces of the volume
\* in ascending order of path length, ties in ascending order of surface
\* index (hence the same sequence for the same volume, position and
\* occupied surface)
C11_ScanDeterminedAndOrdered ==
    ScannedFromEmpty =>
        /\ StrictlyAscending(updated.candidates)
        /\ {updated.candidates[i].index : i \in DOMAIN updated.candidates}
               = ValidSurfaces(entry.volume_index, track[1], entry.object_index)
        /\ \A i \in DOMAIN updated.candidates :
               updated.candidates[i].path =
                   objects[updated.candidates[i].index].pos - track[1].pos

\* a scan of volume 4 from before its coincident surfaces: the range order
\* (6, 7, 8) is not the distance order and two path lengths are equal
C11_Witness ==
    /\ ScannedFromEmpty
    /\ entry.volume_index = 4
    /\ Len(updated.candidates) = 3
    /\ updated.candidates[1].index = 7
    /\ updated.candidates[2].index = 8
    /\ updated.candidates[1].path = updated.candidates[2].path
    /\ updated.candidates[3].index = 6

(***************************************************************************)
(* The stepping caller of the navigation tests: the track is placed, the   *)
(* initial volume set, and from then on every advance of the track         *)
(* follows a status or target call, goes forward and is no longer than     *)
(* the distance to next that call reported.                                *)
(***************************************************************************)
\* the caller advances the track by d after a call
Step(t, d) ==
    /\ IsCall
    /\ caller = t
    /\ track[t].pos + d \in 0 .. MaxPos
    /\ track' = [track EXCEPT ![t].pos = @ + d]
    /\ UNCHANGED navigation
    /\ NoCall(t, "move")

NextStep ==
    \/ \E v \in DOMAIN volumes : SetInitialVolume(1, v)
    \/ nav.status = e_unknown /\ Move(1)
    \/ \E d \in 1 .. MaxPos : d <= nav.distance_to_next /\ Step(1, d)
    \/ StatusCall(1)
    \/ TargetCall(1)

SpecStep == Init /\ [][NextStep]_vars

(***************************************************************************)
(* C12: the distance to next reported by successive calls.  The state on   *)
(* entry of a call carries the distance and status the previous call       *)
(* reported.                                                               *)
(***************************************************************************)
Terminated == nav.status \in {e_abort, e_on_target}

\* C12 as claimed: while the calls report towards_object the reported
\* distance to next never increases from one call to the next; the call
\* after one that reported on_object reports a strictly positive distance
\* or the navigation has terminated
C12_MonotonicConsumption ==
    IsCall =>
        /\ entry.status = e_towards_object
               => nav.distance_to_next <= entry.distance_to_next
        /\ entry.status = e_on_object
               => (nav.distance_to_next > 0 \/ Terminated)

(***************************************************************************)
(* The propagating caller: the track is placed inside a volume (between   *)
(* its portals or on one of them), then status, target and an advance of   *)
(* the track by exactly the reported distance to next follow each other    *)
(* until a call returns heartbeat false or the navigation is on target.    *)
(***************************************************************************)
\* the surfaces of volume v the track hits at distance d or more that link
\* to another volume or out of the world
PortalsFrom(v, trk, d) ==
    {s \in volumes[v][1] .. (volumes[v][2] - 1) :
        /\ objects[s].hit
        /\ objects[s].edge # v
        /\ objects[s].pos - trk.pos >= d}

\* the track has a portal of volume v at or ahead of it and has passed
\* every other portal of v
PortalAhead(v, trk) ==
    /\ PortalsFrom(v, trk, 0) # {}
    /\ Cardinality(PortalsFrom(v, trk, 1)) <= 1

Place(t) ==
    /\ navigation[t].volume_index = dindex_invalid
    /\ Move(t)

Start(t, v) ==
    /\ PortalAhead(v, track[t])
    /\ SetInitialVolume(t, v)

Propagating == heartbeat /\ nav.status # e_on_target

PropagateStatus(t) ==
    /\ op \in {"set_initial_volume", "move"}
    /\ StatusCall(t)

PropagateTarget(t) ==
    /\ op = "status"
    /\ Propagating
    /\ TargetCall(t)

PropagateStep(t) ==
    /\ op = "target"
    /\ Propagating
    /\ Step(t, navigation[t].distance_to_next)

NextLive ==
    \/ Place(1)
    \/ \E v \in DOMAIN volumes : Start(1, v)
    \/ PropagateStatus(1)
    \/ PropagateTarget(1)
    \/ PropagateStep(1)

SpecLive == Init /\ [][NextLive]_vars /\ WF_vars(NextLive)

(***************************************************************************)
(* C13: under the propagating caller the navigation eventually is on       *)
(* target with heartbeat true and never is in status abort.                *)
(***************************************************************************)
\* C13 as claimed: the navigation of the propagating caller eventually is
\* on target with heartbeat true and never has status abort
C13_ReachesTargetNeverAborts ==
    /\ <>(nav.status = e_on_target /\ heartbeat)
    /\ [](nav.status # e_abort)

(***************************************************************************)
(* C14: every candidate the kernel holds after a status or target call     *)
(* has a path length not below the overstep tolerance of the track and is  *)
(* classified inside.                                                      *)
(***************************************************************************)
\* C14 as claimed: after every status or target call every candidate in
\* the kernel has path length >= overstep tolerance and status inside
C14_CandidatesValid ==
    IsCall =>
        \A i \in DOMAIN nav.candidates :
            /\ nav.candidates[i].path >= track[1].overstep_tolerance
            /\ nav.candidates[i].status = e_inside

(***************************************************************************)
(* C15: the candidates from the cursor on are in ascending order of their  *)
(* stored path length after every status or target call.                   *)
(***************************************************************************)
AscendingFrom(cands, first) ==
    \A i \in first .. (Len(cands) - 1) : cands[i].path <= cands[i + 1].path

ReachedCursorCandidate ==
    /\ ~is_exhausted(entry)
    /\ LET obj_idx == entry.candidates[entry.next].index
           path == objects[obj_idx].pos - track[1].pos
       IN  /\ obj_idx # entry.object_index
           /\ objects[obj_idx].hit
           /\ path < on_object_tolerance
           /\ -path < on_object_tolerance

ArrivedInVolume(n, trk) ==
    /\ n.status = e_on_object
    /\ n.trust_level = e_high_trust
    /\ ~is_exhausted(n)
    /\ n.candidates[n.next].index = n.object_index
    /\ n.candidates[n.next].link = n.volume_index
    /\ n.candidates[n.next].path = objects[n.object_index].pos - trk.pos

\* the candidates of n behind the cursor that are inside and not occupied
LaterValid(n) ==
    {j \in (n.next + 1) .. Len(n.candidates) :
        /\ objects[n.candidates[j].index].hit
        /\ n.candidates[j].index # n.object_index}

\* the first of them
NextValid(n) == CHOOSE j \in LaterValid(n) : \A k \in LaterValid(n) : j <= k

\* the track is within the tolerance of candidate j of n
Within(n, trk, j) ==
    LET path == objects[n.candidates[j].index].pos - trk.pos
    IN  path < on_object_tolerance /\ -path < on_object_tolerance

\* the status call of an arrival: trust high_trust, the cursor on the
\* occupied surface, the kernel size unchanged
ArrivalStatus ==
    (op = "status" /\ OnObjectAfterUpdate /\ OccupiedLink = updated.volume_index)
        => /\ nav.trust_level = e_high_trust
           /\ nav.status = e_on_object
           /\ ~is_exhausted(nav)
           /\ nav.candidates[nav.next].index = nav.object_index
           /\ Len(nav.candidates) = Len(entry.candidates)

\* C17 as claimed: a status call that reports on_object on a surface linking
\* to the current volume leaves trust high_trust, the cursor on the occupied
\* surface and the kernel size unchanged; the next target call without
\* motion puts the cursor on the next valid candidate and ends with status
\* towards_object and trust full_trust
C17_TwoPhaseArrival ==
    /\ ArrivalStatus
    /\ (op = "target" /\ ArrivedInVolume(entry, track[1]) /\ LaterValid(entry) # {})
           => /\ nav.next = NextValid(entry)
              /\ nav.status = e_towards_object
              /\ nav.trust_level = e_full_trust

\* C17 as amended: the same, the target call ending with status
\* towards_object and trust full_trust when the track is not within the
\* on-object tolerance of the next valid candidate
C17_TwoPhaseArrivalUnlessCoincident ==
    /\ ArrivalStatus
    /\ (/\ op = "target"
        /\ ArrivedInVolume(entry, track[1])
        /\ LaterValid(entry) # {}
        /\ ~Within(entry, track[1], NextValid(entry)))
           => /\ nav.next = NextValid(entry)
              /\ nav.status = e_towards_object
              /\ nav.trust_level = e_full_trust

\* the target call after the arrival on surface 0 of volume 0
C17_Witness ==
    /\ op = "target"
    /\ ArrivedInVolume(entry, track[1])
    /\ entry.object_index = 0
    /\ nav.next = 2
    /\ nav.candidates[2].index = 1
    /\ nav.status = e_towards_object
    /\ nav.trust_level = e_full_trust

(***************************************************************************)
(* C18: the target call that follows a volume switch, the track still on   *)
(* the portal it crossed.                                                  *)
(***************************************************************************)
\* the state on entry of the last call was left by a switch into a volume
\* through the occupied portal, and the track is within the tolerance of it
SwitchedOnPortal ==
    /\ entry.status = e_on_object
    /\ entry.trust_level = e_no_trust
    /\ empty(entry)
    /\ entry.volume_index \in DOMAIN volumes
    /\ entry.object_index \in DOMAIN objects
    /\ objects[entry.object_index].edge = entry.volume_index
    /\ objects[entry.object_index].pos - track[1].pos < on_object_tolerance
    /\ track[1].pos - objects[entry.object_index].pos < on_object_tolerance

\* C18 as claimed: the target call after a volume switch, the track still on
\* the portal, leaves the adjacent portal of the new volume as the first
\* candidate, the cursor on the candidate after it, status towards_object,
\* the volume unchanged and trust high_trust
C18_RescanAfterSwitch ==
    (op = "target" /\ SwitchedOnPortal)
        => /\ ~empty(nav)
           /\ nav.candidates[1].index \in
                  full_range(nav.volume_index)[1] .. (full_range(nav.volume_index)[2] - 1)
           /\ objects[nav.candidates[1].index].pos = objects[entry.object_index].pos
           /\ objects[nav.candidates[1].index].edge # nav.volume_index
           /\ nav.next = 2
           /\ ~is_exhausted(nav)
           /\ nav.status = e_towards_object
           /\ nav.volume_index = entry.volume_index
           /\ nav.trust_level = e_high_trust

(***************************************************************************)
(* C19: the constructed state, set_initial_volume, and the first status    *)
(* call.                                                                   *)
(***************************************************************************)
\* the last call was a status call on a constructed state whose initial
\* volume was set, in a volume with a valid intersection
FirstStatus ==
    /\ op = "status"
    /\ entry = set_initial_volume(state, entry.volume_index)
    /\ ValidSurfaces(entry.volume_index, track[1], dindex_invalid) # {}

\* C19: a constructed state has status unknown, trust no_trust, an empty
\* kernel and no occupied surface; set_initial_volume changes the current
\* volume only; the first status call in a volume with a valid intersection
\* returns heartbeat true with status towards_object, trust full_trust, the
\* cursor on the nearest candidate and distance to next its path length
C19_FreshStateFirstStatus ==
    /\ op = "construct"
           => /\ nav.status = e_unknown
              /\ nav.trust_level = e_no_trust
              /\ empty(nav)
              /\ nav.object_index = dindex_invalid
    /\ op = "set_initial_volume"
           => /\ nav.volume_index \in DOMAIN volumes
              /\ [nav EXCEPT !.volume_index = dindex_invalid] = state
    /\ FirstStatus
           => /\ heartbeat
              /\ nav.status = e_towards_object
              /\ nav.trust_level = e_full_trust
              /\ nav.next = 1
              /\ nav.candidates[1].index
                     \in ValidSurfaces(entry.volume_index, track[1], dindex_invalid)
              /\ nav.candidates[1].path
                     = objects[nav.candidates[1].index].pos - track[1].pos
              /\ \A s \in ValidSurfaces(entry.volume_index, track[1], dindex_invalid) :
                     nav.candidates[1].path <= objects[s].pos - track[1].pos
              /\ nav.distance_to_next = nav.candidates[1].path

\* the first status call in volume 4, whose nearest surface is not the
\* first of its range
C19_Witness ==
    /\ FirstStatus
    /\ entry.volume_index = 4
    /\ track[1].pos = 0
    /\ nav.candidates[1].index = 7
    /\ nav.distance_to_next = 2

(***************************************************************************)
(* C20: the content of the kernel after an update that was entered with    *)
(* trust no_trust.                                                         *)
(***************************************************************************)
\* the kernel update of the last call was entered with trust no_trust
EnteredNoTrust ==
    /\ RanUpdate
    /\ \/ entry.trust_level = e_no_trust
       \/ op = "target" /\ is_exhausted(entry)

\* C20 as claimed: after an update entered with no_trust, by status as well
\* as by target, the kernel holds exactly one fresh candidate for each valid
\* surface of the current volume other than the occupied one, and nothing
\* else
C20_FullScanContent ==
    EnteredNoTrust =>
        LET valid == ValidSurfaces(entry.volume_index, track[1], entry.object_index)
        IN  /\ \A s \in valid :
                   Cardinality({i \in DOMAIN updated.candidates :
                                   updated.candidates[i].index = s}) = 1
            /\ \A i \in DOMAIN updated.candidates :
                   /\ updated.candidates[i].index \in valid
                   /\ updated.candidates[i].path =
                          objects[updated.candidates[i].index].pos - track[1].pos

(***************************************************************************)
(* C21: trust and status after an update that was entered with trust       *)
(* no_trust.                                                               *)
(***************************************************************************)
\* C21 as claimed: an update entered with no_trust ends with trust
\* full_trust when a surface of the volume survives the scan and with
\* status abort when none does
C21_TrustAfterScan ==
    EnteredNoTrust =>
        LET valid == ValidSurfaces(entry.volume_index, track[1], entry.object_index)
        IN  /\ valid # {} => updated.trust_level = e_full_trust
            /\ valid = {} => updated.status = e_abort

(***************************************************************************)
(* C22: the kernel after a bulk (re-)population, that is an update entered *)
(* with trust no_trust or fair_trust that left candidates in the kernel.   *)
(***************************************************************************)
BulkPopulated ==
    /\ \/ EnteredNoTrust
       \/ RanUpdate /\ entry.trust_level = e_fair_trust
    /\ ~empty(updated)

\* the stored path of candidate i of n is within the on-object tolerance
Coincides(n, i) ==
    /\ n.candidates[i].path < on_object_tolerance
    /\ -n.candidates[i].path < on_object_tolerance

\* C22 as claimed: after a bulk (re-)population the candidates are sorted
\* ascending by path length, the cursor is at the first candidate whose
\* path length exceeds the on-object tolerance, and every candidate within
\* the tolerance lies before the cursor, one of them recorded as occupied
C22_SortContract ==
    BulkPopulated =>
        /\ AscendingFrom(updated.candidates, 1)
        /\ \A i \in DOMAIN updated.candidates :
               i < updated.next <=> updated.candidates[i].path < on_object_tolerance
        /\ \A i \in DOMAIN updated.candidates :
               Coincides(updated, i) => i < updated.next
        /\ (\E i \in DOMAIN updated.candidates : Coincides(updated, i))
               => \E i \in DOMAIN updated.candidates :
                      /\ Coincides(updated, i)
                      /\ updated.object_index = updated.candidates[i].index

(***************************************************************************)
(* C23: an update entered with trust fair_trust on a non-empty kernel.     *)
(***************************************************************************)
EnteredFairTrust ==
    /\ RanUpdate
    /\ entry.trust_level = e_fair_trust
    /\ ~empty(entry)
    /\ ~(op = "target" /\ is_exhausted(entry))

\* how often surface s is among the candidates
Occurrences(cands, s) == Cardinality({i \in DOMAIN cands : cands[i].index = s})

\* C23: an update entered with fair_trust on a non-empty kernel keeps the
\* multiset of surface indices, stores the fresh path length and
\* classification of every candidate, sorts the candidates and sets the
\* cursor, occupied surface, trust and status as after a full scan
C23_FairTrustRefresh ==
    EnteredFairTrust =>
        /\ Len(updated.candidates) = Len(entry.candidates)
        /\ \A s \in DOMAIN objects :
               Occurrences(updated.candidates, s) = Occurrences(entry.candidates, s)
        /\ \A i \in DOMAIN updated.candidates :
               LET obj == objects[updated.candidates[i].index]
               IN  /\ updated.candidates[i].path = obj.pos - track[1].pos
                   /\ updated.candidates[i].status
                          = IF obj.hit THEN e_inside ELSE e_outside
        /\ \A i \in 1 .. (Len(updated.candidates) - 1) :
               \/ updated.candidates[i].path < updated.candidates[i + 1].path
               \/ /\ updated.candidates[i].path = updated.candidates[i + 1].path
                  /\ updated.candidates[i].index <= updated.candidates[i + 1].index
        /\ updated.status = e_towards_object
        /\ IF entry.distance_to_next < on_object_tolerance
           THEN /\ updated.next = 2
                /\ updated.object_index = updated.candidates[1].index
                /\ updated.trust_level = e_high_trust
           ELSE /\ updated.next = 1
                /\ updated.object_index = dindex_invalid
                /\ updated.trust_level = e_full_trust

\* a refresh of the two candidates of a volume after the track moved
C23_Witness ==
    /\ EnteredFairTrust
    /\ op = "status"
    /\ Len(entry.candidates) = 2
    /\ entry.candidates[1].index # entry.candidates[2].index
    /\ updated.candidates[1].path < entry.candidates[1].path
    /\ updated.candidates[2].path < entry.candidates[2].path

(***************************************************************************)
(* C24: an update entered with trust high_trust (or full_trust, in status) *)
(* on a kernel that holds a valid candidate at or behind the cursor.       *)
(***************************************************************************)
EnteredHighTrust ==
    /\ RanUpdate
    /\ entry.trust_level >= e_high_trust
    /\ ~(op = "target" /\ is_exhausted(entry))

\* the candidates of n from the cursor on that are inside and not occupied
ValidFromCursor(n) ==
    {j \in n.next .. Len(n.candidates) :
        /\ objects[n.candidates[j].index].hit
        /\ n.candidates[j].index # n.object_index}

FirstValid(n) ==
    CHOOSE j \in ValidFromCursor(n) : \A k \in ValidFromCursor(n) : j <= k

\* C24: a high-trust update puts the cursor on the first candidate from the
\* cursor on that is inside and not the occupied surface, stores its fresh
\* intersection and takes distance to next from it; within the tolerance
\* it ends with that surface occupied, status on_object and trust
\* high_trust, otherwise with status towards_object and trust full_trust
C24_HighTrustUpdate ==
    (EnteredHighTrust /\ ValidFromCursor(entry) # {}) =>
        LET j == FirstValid(entry)
            path == objects[entry.candidates[j].index].pos - track[1].pos
        IN  /\ updated.next = j
            /\ updated.candidates[j].index = entry.candidates[j].index
            /\ updated.candidates[j].path = path
            /\ updated.distance_to_next = path
            /\ IF path < on_object_tolerance /\ -path < on_object_tolerance
               THEN /\ updated.object_index = entry.candidates[j].index
                    /\ updated.status = e_on_object
                    /\ updated.trust_level = e_high_trust
               ELSE /\ updated.object_index = entry.object_index
                    /\ updated.status = e_towards_object
                    /\ updated.trust_level = e_full_trust

\* a status call that passes over the occupied surface onto one that
\* coincides with it
C24_Witness ==
    /\ EnteredHighTrust
    /\ op = "status"
    /\ ~is_exhausted(entry)
    /\ entry.candidates[entry.next].index = entry.object_index
    /\ updated.next = entry.next + 1
    /\ updated.status = e_on_object
    /\ updated.object_index # entry.object_index

(***************************************************************************)
(* C25: a high-trust update that runs the cursor to the end of a non-empty *)
(* kernel without finding a valid candidate.                               *)
(***************************************************************************)
ExhaustedByUpdate ==
    /\ EnteredHighTrust
    /\ ~empty(entry)
    /\ ValidFromCursor(entry) = {}

\* C25 as claimed: a call whose high-trust update exhausts a non-empty
\* kernel does not leave status abort, returns heartbeat true and leaves
\* trust no_trust for the next call
C25_ExhaustionNoError ==
    ExhaustedByUpdate =>
        /\ nav.status # e_abort
        /\ heartbeat
        /\ nav.trust_level = e_no_trust

Switched == IsCall /\ nav.volume_index # updated.volume_index

\* the last call was a target call that cleared an exhausted kernel before
\* its update
ClearedOnExhaustion ==
    op = "target" /\ entry.trust_level # e_full_trust /\ is_exhausted(entry)

\* C27 as claimed: after a clear the kernel has no candidates, the cursor is
\* at the end, the kernel's occupied-surface marker is cleared and the
\* navigation state names no occupied surface
C27_ClearNamesNoOccupiedSurface ==
    Switched =>
        /\ empty(nav)
        /\ nav.next = end(nav)
        /\ nav.on = nullptr
        /\ nav.object_index = dindex_invalid

\* C27 as amended: a clear drops all candidates, puts the cursor at the end
\* and clears the kernel's marker, but leaves the occupied surface index of
\* the state alone: after a volume switch it is the one the update set, and
\* after a clear on exhaustion the update starts from an empty kernel, so
\* that no surface is held twice
C27_ClearKeepsOccupiedIndex ==
    /\ Switched =>
           /\ empty(nav)
           /\ nav.next = end(nav)
           /\ nav.on = nullptr
           /\ nav.object_index = updated.object_index
    /\ ClearedOnExhaustion =>
           /\ updated.on = nullptr
           /\ \A i, j \in DOMAIN updated.candidates :
                  updated.candidates[i].index = updated.candidates[j].index => i = j
           /\ \A i \in DOMAIN updated.candidates :
                  updated.candidates[i].path =
                      objects[updated.candidates[i].index].pos - track[1].pos

C27_Witness ==
    /\ Switched
    /\ ~empty(updated)
    /\ nav.volume_index \in DOMAIN volumes
    /\ nav.object_index \in DOMAIN objects
    /\ objects[nav.object_index].edge = nav.volume_index


(***************************************************************************)
(* C28: the reads of the cursor candidate.  sort_and_set reads the path of *)
(* the cursor candidate after it placed the cursor, and                    *)
(* check_volume_switch reads its link when the status is on_object.        *)
(***************************************************************************)
\* the last call's sort_and_set took distance-to-next from the cursor
\* candidate with the cursor at the end of the sequence
SortAndSetReadAtEnd == BulkPopulated /\ is_exhausted(updated)

\* the last call's check_volume_switch took the link of the cursor candidate
\* with the cursor at the end of the sequence
VolumeSwitchReadAtEnd ==
    /\ IsCall
    /\ inspections # <<>>
    /\ updated.status = e_on_object
    /\ is_exhausted(updated)

\* C28 as claimed: no call reads the cursor candidate with the cursor at the
\* end of the sequence; when a bulk re-population skips the first candidate
\* as occupied, a later candidate exists
C28_CursorSafety == ~SortAndSetReadAtEnd /\ ~VolumeSwitchReadAtEnd


(***************************************************************************)
(* C29: distance-to-next and the cursor candidate after a call.            *)
(***************************************************************************)
\* C29: after every status or target call that ends with status
\* towards_object or on_object and a cursor that is not at the end,
\* distance-to-next equals the path stored in the cursor candidate
C29_DistanceIsCursorPath ==
    (/\ IsCall
     /\ nav.status \in {e_towards_object, e_on_object}
     /\ ~is_exhausted(nav))
        => nav.distance_to_next = nav.candidates[nav.next].path

\* a high-trust update moved the cursor on and took the distance from a
\* candidate that it re-intersected after a step
C29_Witness ==
    /\ IsCall
    /\ EnteredHighTrust
    /\ nav.status = e_towards_object
    /\ ~is_exhausted(nav)
    /\ nav.next > entry.next
    /\ ~is_exhausted(entry)
    /\ nav.candidates[nav.next].path # entry.candidates[nav.next].path
    /\ nav.distance_to_next = nav.candidates[nav.next].path


(***************************************************************************)
(* C30: distance-to-next when a call ends on an object.                    *)
(***************************************************************************)
\* C30: whenever the status is on_object at the end of a status or target
\* call, the absolute value of distance-to-next is below the on-object
\* tolerance, also when the call switched the volume and cleared the kernel
C30_OnObjectWithinTolerance ==
    (IsCall /\ nav.status = e_on_object)
        => /\ nav.distance_to_next < on_object_tolerance
           /\ -nav.distance_to_next < on_object_tolerance

\* a call found the track on a portal, behind it by less than the
\* tolerance, switched the volume and cleared the kernel
C30_Witness ==
    /\ Switched
    /\ RanUpdate
    /\ nav.status = e_on_object
    /\ empty(nav)
    /\ nav.distance_to_next < 0
    /\ -nav.distance_to_next < on_object_tolerance


(***************************************************************************)
(* C31: the current volume and the kernel after a call whose kernel update *)
(* gives the volume-switch check no reason to switch.                      *)
(***************************************************************************)
\* the kernel update of the last call did not end on an object, or ended on
\* an object whose link is the current volume
NoSwitchDue ==
    /\ IsCall
    /\ \/ updated.status # e_on_object
       \/ ~is_exhausted(updated) /\ OccupiedLink = updated.volume_index

\* C31: a call whose kernel update does not end with status on_object, or
\* ends on_object on a surface whose link equals the current volume, leaves
\* the current volume as it was on entry and the kernel as the update left it
C31_VolumeChangesOnlyBySwitch ==
    NoSwitchDue =>
        /\ nav.volume_index = entry.volume_index
        /\ updated.volume_index = entry.volume_index
        /\ nav.candidates = updated.candidates
        /\ nav.next = updated.next

\* a call ended on a surface that links to the current volume, with further
\* candidates in the kernel
C31_Witness ==
    /\ RanUpdate
    /\ updated.status = e_on_object
    /\ ~is_exhausted(updated)
    /\ OccupiedLink = updated.volume_index
    /\ nav.volume_index = entry.volume_index
    /\ Len(nav.candidates) >= 2


(***************************************************************************)
(* C32: what a high-trust update, by status or target under high_trust or  *)
(* by status under full_trust, leaves alone.                               *)
(***************************************************************************)
\* the update of the last call accepted the candidate at its cursor
AcceptedCursorCandidate ==
    /\ ~is_exhausted(updated)
    /\ updated.status \in {e_towards_object, e_on_object}

\* C32: a high-trust update that does not end in a volume switch neither
\* adds nor removes a candidate, changes no candidate other than the one at
\* the cursor it accepted, and does not move the cursor backwards
C32_HighTrustFrame ==
    (EnteredHighTrust /\ ~Switched) =>
        /\ Len(updated.candidates) = Len(entry.candidates)
        /\ nav.candidates = updated.candidates
        /\ \A i \in DOMAIN updated.candidates :
               updated.candidates[i] # entry.candidates[i]
                   => AcceptedCursorCandidate /\ i = updated.next
        /\ updated.next >= entry.next
        /\ nav.next = updated.next

\* a high-trust update after a step went past an occupied candidate and
\* rewrote the one it accepted, the occupied one keeping its stale path
C32_Witness ==
    /\ EnteredHighTrust
    /\ ~Switched
    /\ AcceptedCursorCandidate
    /\ updated.next > entry.next
    /\ ~is_exhausted(entry)
    /\ updated.candidates[updated.next] # entry.candidates[updated.next]
    /\ updated.candidates[entry.next].path #
           objects[updated.candidates[entry.next].index].pos - track[1].pos


(***************************************************************************)
(* C33: the state in status on_target, and target calls made in it.        *)
(***************************************************************************)
\* C33: whenever the status is on_target the current volume is the invalid
\* sentinel, the kernel is empty with the cursor at its end and trust is
\* full_trust; a target call made in status on_target returns heartbeat
\* true and changes nothing
C33_OnTargetIsFinal ==
    /\ nav.status = e_on_target =>
           /\ nav.volume_index = dindex_invalid
           /\ empty(nav)
           /\ is_exhausted(nav)
           /\ nav.trust_level = e_full_trust
    /\ (op = "target" /\ entry.status = e_on_target) =>
           /\ heartbeat
           /\ nav = entry

\* a target call was made after the navigation had reached on_target
C33_Witness ==
    /\ op = "target"
    /\ entry.status = e_on_target
    /\ nav.status = e_on_target
    /\ nav.volume_index = dindex_invalid


(***************************************************************************)
(* C34: the state after a call that ends with status abort.                *)
(***************************************************************************)
\* C34 as claimed: after any status or target call that ends with status
\* abort, trust is no_trust and the call has changed neither the current
\* volume nor distance-to-next
C34_AbortLeavesNoTrust ==
    (IsCall /\ nav.status = e_abort) =>
        /\ nav.trust_level = e_no_trust
        /\ nav.volume_index = entry.volume_index
        /\ nav.distance_to_next = entry.distance_to_next

\* C34 as amended: the same for the calls that ran the kernel update; a
\* target call that returns at once under full_trust in an aborted state
\* leaves status abort with trust full_trust
C34_AbortByUpdateLeavesNoTrust ==
    /\ (RanUpdate /\ nav.status = e_abort) =>
           /\ nav.trust_level = e_no_trust
           /\ nav.volume_index = entry.volume_index
           /\ nav.distance_to_next = entry.distance_to_next
    /\ (IsCall /\ ~RanUpdate /\ nav.status = e_abort) =>
           /\ nav.trust_level = e_full_trust
           /\ nav = entry

\* a high-trust update entered in status on_object after an earlier scan
\* exhausted the kernel and aborted, the distance of the scan standing
C34_Witness ==
    /\ RanUpdate
    /\ nav.status = e_abort
    /\ entry.status = e_on_object
    /\ entry.trust_level = e_high_trust
    /\ ~empty(nav)
    /\ nav.trust_level = e_no_trust
    /\ nav.distance_to_next # state.distance_to_next


(***************************************************************************)
(* C35: which candidate a bulk (re-)population skips as occupied.          *)
(***************************************************************************)
\* the last call scanned the volume with distance-to-next as constructed
FirstScan ==
    /\ BulkPopulated
    /\ EnteredNoTrust
    /\ entry.distance_to_next = state.distance_to_next

\* C35: the first scan from a constructed state skips no candidate, also
\* when the track starts on a surface: the cursor is the first candidate,
\* no surface is occupied, status is towards_object and trust full_trust; a
\* bulk (re-)population skips a candidate exactly when distance-to-next as
\* it was before is below the on-object tolerance, and then skips the first
\* candidate only
C35_SkipByRememberedDistance ==
    /\ FirstScan =>
           /\ updated.next = 1
           /\ updated.object_index = dindex_invalid
           /\ updated.status = e_towards_object
           /\ updated.trust_level = e_full_trust
    /\ BulkPopulated =>
           IF entry.distance_to_next < on_object_tolerance
           THEN /\ updated.next = 2
                /\ updated.object_index = updated.candidates[1].index
           ELSE /\ updated.next = 1
                /\ updated.object_index = dindex_invalid

\* the first scan of a track that starts on a surface
C35_Witness ==
    /\ FirstScan
    /\ Coincides(updated, 1)
    /\ updated.next = 1
    /\ updated.object_index = dindex_invalid


(***************************************************************************)
(* C36: the trust level a call leaves.                                     *)
(***************************************************************************)
\* C36: after any status or target call the trust level is no_trust,
\* high_trust or full_trust, never fair_trust; it is no_trust only if the
\* call ended in status abort or switched into a valid volume; and if the
\* call ended with status towards_object the trust is full_trust or
\* high_trust
C36_TrustAfterCall ==
    IsCall =>
        /\ nav.trust_level \in {e_no_trust, e_high_trust, e_full_trust}
        /\ nav.trust_level = e_no_trust
               => \/ nav.status = e_abort
                  \/ Switched /\ nav.volume_index \in DOMAIN volumes
        /\ nav.status = e_towards_object
               => nav.trust_level \in {e_full_trust, e_high_trust}

\* a call entered with fair_trust that refreshed a kernel and left it with
\* full_trust
C36_Witness ==
    /\ IsCall
    /\ entry.trust_level = e_fair_trust
    /\ ~empty(entry)
    /\ nav.status = e_towards_object
    /\ nav.trust_level = e_full_trust

====
